---- MODULE Spec2Model ----
(***************************************************************************)
(* Model of backend/server.py: the FastAPI handlers over the MongoDB       *)
(* collections credentials, automation_state, activity_logs, rate_limits,  *)
(* connections and messages.  One action per handler, its awaited store    *)
(* calls taken together (requests served one at a time); the Req* actions  *)
(* split the automation handlers at their awaits for requests in flight    *)
(* together.                                                               *)
(*                                                                         *)
(* The Action Loop that would consume the status flag is not part of       *)
(* server.py ("this would trigger the Go automation engine").  Its two     *)
(* steps LoopBegin and LoopDispatch are modelled from the design document  *)
(* (sections 4.1 and 4.5) and are the only writers of status "error" and   *)
(* of current_task.                                                        *)
(***************************************************************************)
EXTENDS Integers, Sequences, FiniteSets, TLC

\* ---------------------------------------------------------------- bounds
MaxTime == 2          \* the clock runs over 0..MaxTime
TicksPerDay == 2      \* clock ticks in one UTC day
MaxLogs == 2          \* documents kept in activity_logs
MaxConnections == 2   \* documents kept in connections
MaxMessages == 1      \* documents kept in messages
NumClients == 2       \* requests that may be in flight together

\* An optional value: Python's None (also what is read for a field a document
\* does not hold) is the empty tuple, a value v that is present is <<v>>.
NONE == <<>>

Some(v) == <<v>>

VARIABLES
    credentials,       \* db.credentials: sequence of documents
    automation_state,  \* db.automation_state: sequence of documents
    activity_logs,     \* db.activity_logs: sequence of documents
    rate_limits,       \* db.rate_limits: sequence of documents
    connections,       \* db.connections: sequence of documents
    messages,          \* db.messages: sequence of documents
    now,               \* datetime.now(timezone.utc), in ticks
    loop_pc,           \* position of the Action Loop: "waiting" or "ready"
    response,          \* what the last request returned: [op, result]
    requests           \* the lifecycle requests in flight, one per client

vars == <<credentials, automation_state, activity_logs, rate_limits,
          connections, messages, now, loop_pc, response, requests>>

\* ---------------------------------------------------------------- enums
AutomationStatus == {"idle", "running", "paused", "error"}

ConnectionStatus == {"pending", "accepted", "declined", "failed"}

\* ------------------------------------------------------------ documents
\* AutomationState(): the default document (the counters, which no handler
\* writes, are left out).
DefaultAutomationState ==
    [status |-> "idle", current_task |-> NONE,
     started_at |-> NONE, error_message |-> NONE]

\* {"$set": upd} applied to one document.
SetFields(doc, upd) ==
    [f \in DOMAIN doc |-> IF f \in DOMAIN upd THEN upd[f] ELSE doc[f]]

\* update_one(filter, {"$set": upd}, upsert=True) on a collection all of whose
\* documents match the filter: the first document is updated; an empty
\* collection gets a new document holding only the filter's and upd's fields.
UpsertFirst(coll, upd, blank) ==
    IF coll = <<>>
    THEN <<SetFields(blank, upd)>>
    ELSE [coll EXCEPT ![1] = SetFields(coll[1], upd)]

\* A document of automation_state holding only its id: every field reads as
\* its default.
BlankAutomationState ==
    [status |-> "idle", current_task |-> NONE,
     started_at |-> NONE, error_message |-> NONE]

\* The state GetState reports: find_one's document, else the default.
CurrentState ==
    IF automation_state = <<>> THEN DefaultAutomationState
    ELSE automation_state[1]

StatusOf == CurrentState.status

\* ------------------------------------------------------------- logging
\* log_activity: one document appended to activity_logs (its action_type).
log_activity(logs, action_type) == Append(logs, action_type)

CanLog == Len(activity_logs) < MaxLogs

AutomationLogCount ==
    Cardinality({i \in 1..Len(activity_logs) : activity_logs[i] = "automation"})

Respond(op, result) == response' = [op |-> op, result |-> result]

\* ------------------------------------------------------------ the clock
Tick ==
    /\ now < MaxTime
    /\ now' = now + 1
    /\ Respond("tick", "ok")
    /\ UNCHANGED <<credentials, automation_state, activity_logs, rate_limits,
                   connections, messages, loop_pc, requests>>

\* ---------------------------------------------------------- credentials
save_credentials ==
    /\ CanLog
    /\ credentials' = IF credentials # <<>>
                      THEN [credentials EXCEPT ![1] = "creds"]
                      ELSE Append(credentials, "creds")
    /\ activity_logs' = log_activity(activity_logs, "credentials")
    /\ Respond("save_credentials", "ok")
    /\ UNCHANGED <<automation_state, rate_limits, connections, messages,
                   now, loop_pc, requests>>

delete_credentials ==
    /\ CanLog
    /\ credentials' = <<>>
    /\ activity_logs' = log_activity(activity_logs, "credentials")
    /\ Respond("delete_credentials", "ok")
    /\ UNCHANGED <<automation_state, rate_limits, connections, messages,
                   now, loop_pc, requests>>

clear_activity_logs ==
    /\ activity_logs' = <<>>
    /\ Respond("clear_activity_logs", "ok")
    /\ UNCHANGED <<credentials, automation_state, rate_limits, connections,
                   messages, now, loop_pc, requests>>

\* ----------------------------------------------------- automation state
get_automation_state ==
    /\ automation_state' = IF automation_state # <<>> THEN automation_state
                           ELSE Append(automation_state, DefaultAutomationState)
    /\ Respond("get_automation_state", "ok")
    /\ UNCHANGED <<credentials, activity_logs, rate_limits, connections,
                   messages, now, loop_pc, requests>>

\* start_automation without its check of the credentials collection.
start_automation_NoCredentialsCheck ==
    /\ CanLog
    /\ automation_state' = UpsertFirst(automation_state,
           [status |-> "running", started_at |-> Some(now), error_message |-> NONE],
           BlankAutomationState)
    /\ activity_logs' = log_activity(activity_logs, "automation")
    /\ Respond("start", "ok")
    /\ UNCHANGED <<credentials, rate_limits, connections, messages, now, loop_pc, requests>>

start_automation ==
    \/ /\ credentials = <<>>
       /\ Respond("start", "ConfigurationMissing")
       /\ UNCHANGED <<credentials, automation_state, activity_logs, rate_limits,
                      connections, messages, now, loop_pc, requests>>
    \/ /\ credentials # <<>>
       /\ CanLog
       /\ automation_state' = UpsertFirst(automation_state,
              [status |-> "running", started_at |-> Some(now), error_message |-> NONE],
              BlankAutomationState)
       /\ activity_logs' = log_activity(activity_logs, "automation")
       /\ Respond("start", "ok")
       /\ UNCHANGED <<credentials, rate_limits, connections, messages, now,
                      loop_pc, requests>>

stop_automation ==
    /\ CanLog
    /\ automation_state' = UpsertFirst(automation_state,
           [status |-> "idle", current_task |-> NONE], BlankAutomationState)
    /\ activity_logs' = log_activity(activity_logs, "automation")
    /\ Respond("stop", "ok")
    /\ UNCHANGED <<credentials, rate_limits, connections, messages, now, loop_pc, requests>>

pause_automation ==
    /\ CanLog
    /\ automation_state' = UpsertFirst(automation_state,
           [status |-> "paused"], BlankAutomationState)
    /\ activity_logs' = log_activity(activity_logs, "automation")
    /\ Respond("pause", "ok")
    /\ UNCHANGED <<credentials, rate_limits, connections, messages, now, loop_pc, requests>>

resume_automation ==
    /\ CanLog
    /\ automation_state' = UpsertFirst(automation_state,
           [status |-> "running"], BlankAutomationState)
    /\ activity_logs' = log_activity(activity_logs, "automation")
    /\ Respond("resume", "ok")
    /\ UNCHANGED <<credentials, rate_limits, connections, messages, now, loop_pc, requests>>

\* ---------------------------------------------------------- rate limits
\* RateLimitConfig(): the default document, stamped with the current time.
DefaultRateLimitConfig ==
    [daily_connection_limit |-> 50, daily_message_limit |-> 100,
     min_action_delay_ms |-> 5000, max_action_delay_ms |-> 15000,
     business_hours_start |-> 9, business_hours_end |-> 18,
     skip_weekends |-> TRUE, updated_at |-> now]

RateLimitFields ==
    {"daily_connection_limit", "daily_message_limit", "min_action_delay_ms",
     "max_action_delay_ms", "business_hours_start", "business_hours_end",
     "skip_weekends"}

\* RateLimitConfigUpdate requests: every field is optional (NONE when omitted)
\* and, when given, any integer (any bool for skip_weekends).
RateLimitUpdates ==
    [daily_connection_limit : {NONE, Some(0), Some(1)},
     daily_message_limit    : {NONE, Some(1)},
     min_action_delay_ms    : {NONE, Some(20000)},
     max_action_delay_ms    : {NONE},
     business_hours_start   : {NONE, Some(20)},
     business_hours_end     : {NONE},
     skip_weekends          : {NONE, Some(FALSE)}]

\* The requests that touch the two daily limits only.
QuotaUpdates ==
    {u \in RateLimitUpdates :
        /\ u.min_action_delay_ms = NONE
        /\ u.business_hours_start = NONE
        /\ u.skip_weekends = NONE
        /\ u.daily_connection_limit # Some(0)}

\* update_data: the fields of the request that are not None, and updated_at.
UpdateData(config) ==
    [f \in {g \in RateLimitFields : config[g] # NONE} \cup {"updated_at"} |->
        IF f = "updated_at" THEN now ELSE config[f][1]]

get_rate_limits ==
    /\ rate_limits' = IF rate_limits # <<>> THEN rate_limits
                      ELSE Append(rate_limits, DefaultRateLimitConfig)
    /\ Respond("get_rate_limits", "ok")
    /\ UNCHANGED <<credentials, automation_state, activity_logs, connections,
                   messages, now, loop_pc, requests>>

\* update_rate_limits building the stored document from RateLimitConfig's
\* defaults in both branches, instead of "$set" on the existing document.
update_rate_limits_FromDefaults(config) ==
    /\ CanLog
    /\ rate_limits' =
           IF rate_limits # <<>>
           THEN [rate_limits EXCEPT
                    ![1] = SetFields(DefaultRateLimitConfig, UpdateData(config))]
           ELSE Append(rate_limits,
                       SetFields(DefaultRateLimitConfig, UpdateData(config)))
    /\ activity_logs' = log_activity(activity_logs, "config")
    /\ response' = [op |-> "update_rate_limits", result |-> "ok",
                    request |-> config]
    /\ UNCHANGED <<credentials, automation_state, connections, messages, now,
                   loop_pc, requests>>

update_rate_limits(config) ==
    /\ CanLog
    /\ rate_limits' =
           IF rate_limits # <<>>
           THEN [rate_limits EXCEPT ![1] = SetFields(@, UpdateData(config))]
           ELSE Append(rate_limits,
                       SetFields(DefaultRateLimitConfig, UpdateData(config)))
    /\ activity_logs' = log_activity(activity_logs, "config")
    /\ response' = [op |-> "update_rate_limits", result |-> "ok",
                    request |-> config]
    /\ UNCHANGED <<credentials, automation_state, connections, messages, now,
                   loop_pc, requests>>

\* The configuration handed to the engine: the stored one, else the default.
EffectiveRateLimits ==
    IF rate_limits = <<>> THEN DefaultRateLimitConfig ELSE rate_limits[1]

\* ------------------------------------------------ connections, messages
create_connection(status) ==
    /\ Len(connections) < MaxConnections
    /\ connections' = Append(connections,
           [id |-> Len(connections) + 1, status |-> status, created_at |-> now,
            accepted_at |-> NONE])
    /\ Respond("create_connection", "ok")
    /\ UNCHANGED <<credentials, automation_state, activity_logs, rate_limits,
                   messages, now, loop_pc, requests>>

\* update_connection_status: update_one's "$set" on the first document with
\* the id; modified_count is 0 when no document matches and when the matched
\* document already holds the values.  accepted_at is a fresh timestamp (of
\* microsecond resolution), which never equals the stored one.
StatusUpdateData(status) ==
    IF status = "accepted"
    THEN [status |-> status, accepted_at |-> Some(now)]
    ELSE [status |-> status]

Matching(connection_id) ==
    {i \in 1..Len(connections) : connections[i].id = connection_id}

ModifiedCount(connection_id, status) ==
    IF Matching(connection_id) = {} THEN 0
    ELSE LET i == CHOOSE j \in Matching(connection_id) :
                      \A k \in Matching(connection_id) : j <= k
         IN IF status = "accepted" \/ connections[i].status # status
            THEN 1 ELSE 0

update_connection_status(connection_id, status) ==
    /\ connections' =
           IF Matching(connection_id) = {} THEN connections
           ELSE LET i == CHOOSE j \in Matching(connection_id) :
                             \A k \in Matching(connection_id) : j <= k
                IN [connections EXCEPT
                       ![i] = SetFields(@, StatusUpdateData(status))]
    /\ response' = [op |-> "update_connection_status",
                    result |-> IF ModifiedCount(connection_id, status) = 0
                               THEN "Connection not found" ELSE "ok",
                    request |-> [id |-> connection_id, status |-> status]]
    /\ UNCHANGED <<credentials, automation_state, activity_logs, rate_limits,
                   messages, now, loop_pc, requests>>

create_message ==
    /\ Len(messages) < MaxMessages
    /\ messages' = Append(messages, [status |-> "sent", sent_at |-> now])
    /\ Respond("create_message", "ok")
    /\ UNCHANGED <<credentials, automation_state, activity_logs, rate_limits,
                   connections, now, loop_pc, requests>>

\* get_dashboard_stats: midnight of the current UTC day, and the documents
\* stamped at or after it.
Today == (now \div TicksPerDay) * TicksPerDay

ConnectionsToday ==
    Cardinality({i \in 1..Len(connections) : connections[i].created_at >= Today})

MessagesToday ==
    Cardinality({i \in 1..Len(messages) : messages[i].sent_at >= Today})

\* ------------------------------------------------------ the Action Loop
\* Steps 1-5 of an iteration: the loop goes on only while the stored status
\* is "running", takes a candidate action and persists current_task.
LoopBegin ==
    /\ loop_pc = "waiting"
    /\ automation_state # <<>>
    /\ StatusOf = "running"
    /\ automation_state' = [automation_state EXCEPT
                               ![1] = SetFields(@, [current_task |-> Some("connect")])]
    /\ loop_pc' = "ready"
    /\ Respond("loop_begin", "ok")
    /\ UNCHANGED <<credentials, activity_logs, rate_limits, connections,
                   messages, now, requests>>

\* Steps 6-8: the action is dispatched; a fatal outcome takes a Running
\* engine to Error with error_message set, and the iteration ends.
LoopDispatch ==
    /\ loop_pc = "ready"
    /\ \E outcome \in {"success", "AuthenticationRejected"} :
          /\ automation_state' =
                 IF outcome = "AuthenticationRejected" /\ StatusOf = "running"
                 THEN [automation_state EXCEPT ![1] = SetFields(@,
                          [status |-> "error",
                           error_message |-> Some("AuthenticationRejected")])]
                 ELSE automation_state
          /\ Respond("loop_dispatch", outcome)
    /\ loop_pc' = "waiting"
    /\ UNCHANGED <<credentials, activity_logs, rate_limits, connections,
                   messages, now, requests>>

\* --------------------------------------------- requests served together
\* Each handler is a coroutine: every awaited store call is a step of its
\* own, and the steps of requests in flight interleave.
Clients == 1..NumClients

NoRequest == [op |-> "none", pc |-> "idle"]

\* The "$set" document of each lifecycle handler's update_one.
StateUpdate(op) ==
    CASE op = "start"  -> [status |-> "running", started_at |-> Some(now),
                           error_message |-> NONE]
      [] op = "stop"   -> [status |-> "idle", current_task |-> NONE]
      [] op = "pause"  -> [status |-> "paused"]
      [] op = "resume" -> [status |-> "running"]

\* A request arrives: GetState and Start begin with a find_one, the other
\* handlers with their update_one.
ReqBegin(c, op) ==
    /\ requests[c] = NoRequest
    /\ requests' = [requests EXCEPT ![c] =
           [op |-> op, pc |-> IF op \in {"get", "start"} THEN "find" ELSE "update"]]
    /\ UNCHANGED <<credentials, automation_state, activity_logs, rate_limits,
                   connections, messages, now, loop_pc, response>>

\* get_automation_state: find_one; a document found is returned.
ReqFindState(c) ==
    /\ requests[c] = [op |-> "get", pc |-> "find"]
    /\ IF automation_state # <<>>
       THEN /\ requests' = [requests EXCEPT ![c] = NoRequest]
            /\ Respond("get_automation_state", "ok")
       ELSE /\ requests' = [requests EXCEPT ![c].pc = "insert"]
            /\ UNCHANGED response
    /\ UNCHANGED <<credentials, automation_state, activity_logs, rate_limits,
                   connections, messages, now, loop_pc>>

\* get_automation_state: insert_one of the default document.
ReqInsertDefault(c) ==
    /\ requests[c] = [op |-> "get", pc |-> "insert"]
    /\ automation_state' = Append(automation_state, DefaultAutomationState)
    /\ requests' = [requests EXCEPT ![c] = NoRequest]
    /\ Respond("get_automation_state", "ok")
    /\ UNCHANGED <<credentials, activity_logs, rate_limits, connections,
                   messages, now, loop_pc>>

\* start_automation: find_one on credentials; none raises the 400.
ReqFindCredentials(c) ==
    /\ requests[c] = [op |-> "start", pc |-> "find"]
    /\ IF credentials = <<>>
       THEN /\ requests' = [requests EXCEPT ![c] = NoRequest]
            /\ Respond("start", "ConfigurationMissing")
       ELSE /\ requests' = [requests EXCEPT ![c].pc = "update"]
            /\ UNCHANGED response
    /\ UNCHANGED <<credentials, automation_state, activity_logs, rate_limits,
                   connections, messages, now, loop_pc>>

\* The handlers' update_one(..., upsert=True), one store operation.
ReqUpdateState(c) ==
    /\ requests[c].pc = "update"
    /\ automation_state' = UpsertFirst(automation_state,
           StateUpdate(requests[c].op), BlankAutomationState)
    /\ requests' = [requests EXCEPT ![c].pc = "log"]
    /\ UNCHANGED <<credentials, activity_logs, rate_limits, connections,
                   messages, now, loop_pc, response>>

\* The handlers' log_activity and return.
ReqLog(c) ==
    /\ requests[c].pc = "log"
    /\ CanLog
    /\ activity_logs' = log_activity(activity_logs, "automation")
    /\ requests' = [requests EXCEPT ![c] = NoRequest]
    /\ Respond(requests[c].op, "ok")
    /\ UNCHANGED <<credentials, automation_state, rate_limits, connections,
                   messages, now, loop_pc>>

\* -------------------------------------------------------- specification
Init ==
    /\ credentials = <<>>
    /\ automation_state = <<>>
    /\ activity_logs = <<>>
    /\ rate_limits = <<>>
    /\ connections = <<>>
    /\ messages = <<>>
    /\ now = 0
    /\ loop_pc = "waiting"
    /\ response = [op |-> "init", result |-> "ok"]
    /\ requests = [c \in Clients |-> NoRequest]

Next ==
    \/ Tick
    \/ save_credentials
    \/ delete_credentials
    \/ clear_activity_logs
    \/ get_automation_state
    \/ start_automation
    \/ stop_automation
    \/ pause_automation
    \/ resume_automation
    \/ LoopBegin
    \/ LoopDispatch

Spec == Init /\ [][Next]_vars

\* The rate-limit configuration endpoints.
NextRateLimits ==
    \/ Tick
    \/ clear_activity_logs
    \/ get_rate_limits
    \/ \E config \in RateLimitUpdates : update_rate_limits(config)

SpecRateLimits == Init /\ [][NextRateLimits]_vars

\* The daily limits and the records of performed actions.
NextQuota ==
    \/ Tick
    \/ clear_activity_logs
    \/ \E config \in QuotaUpdates : update_rate_limits(config)
    \/ create_connection("pending")
    \/ create_message

SpecQuota == Init /\ [][NextQuota]_vars

LifecycleOps == {"start", "stop", "pause", "resume"}

\* Lifecycle requests in flight together.
NextConcurrent ==
    \/ save_credentials
    \/ clear_activity_logs
    \/ \E c \in Clients, op \in {"get"} \cup LifecycleOps : ReqBegin(c, op)
    \/ \E c \in Clients : ReqFindState(c)
    \/ \E c \in Clients : ReqInsertDefault(c)
    \/ \E c \in Clients : ReqFindCredentials(c)
    \/ \E c \in Clients : ReqUpdateState(c)
    \/ \E c \in Clients : ReqLog(c)

SpecConcurrent == Init /\ [][NextConcurrent]_vars

\* The connection records.
NextConnections ==
    \/ Tick
    \/ \E status \in ConnectionStatus : create_connection(status)
    \/ \E connection_id \in 1..(MaxConnections + 1), status \in ConnectionStatus :
          update_connection_status(connection_id, status)

SpecConnections == Init /\ [][NextConnections]_vars

\* ---------------------------------------------------------------- claims

\* C1: Start issued when no credentials are configured fails with
\* ConfigurationMissing and changes nothing: the persisted AutomationState is
\* what it was before the call (an Idle engine remains Idle) and nothing is
\* logged.
C1_StartWithoutCredentials ==
    [][(response'.op = "start" /\ credentials = <<>>) =>
          /\ response'.result = "ConfigurationMissing"
          /\ automation_state' = automation_state
          /\ StatusOf' = StatusOf
          /\ activity_logs' = activity_logs]_vars

\* A Start has just failed for want of credentials on a stored Idle state.
C1_Witness ==
    /\ response = [op |-> "start", result |-> "ConfigurationMissing"]
    /\ automation_state # <<>>
    /\ StatusOf = "idle"

\* C2: Pause moves the engine to Paused only when the status is Running; in
\* any other status it reports InvalidTransition and leaves the
\* AutomationState unchanged.
C2_PauseOnlyFromRunning ==
    [][response'.op = "pause" =>
          IF StatusOf = "running"
          THEN StatusOf' = "paused"
          ELSE /\ response'.result = "InvalidTransition"
               /\ automation_state' = automation_state]_vars

\* C3: Resume moves the engine to Running only when the status is Paused; in
\* any other status it reports InvalidTransition and leaves the
\* AutomationState unchanged, so Resume never takes an Idle engine to Running.
C3_ResumeOnlyFromPaused ==
    [][response'.op = "resume" =>
          IF StatusOf = "paused"
          THEN StatusOf' = "running"
          ELSE /\ response'.result = "InvalidTransition"
               /\ automation_state' = automation_state]_vars

\* C4: Error is terminal until an explicit Start: in status Error no Stop,
\* Pause or Resume changes the status; only a successful Start leaves Error,
\* and after it the status is Running and error_message is empty.
C4_ErrorTerminalUntilStart ==
    [][StatusOf = "error" =>
          /\ response'.op \in {"stop", "pause", "resume"} => StatusOf' = "error"
          /\ StatusOf' # "error" =>
                 /\ response' = [op |-> "start", result |-> "ok"]
                 /\ StatusOf' = "running"
                 /\ CurrentState'.error_message = NONE]_vars

\* C5: a second Start while the status is already Running (an engine that a
\* Start started, so that started_at is set) is a no-op: the persisted
\* AutomationState, started_at included, is the same after the call as before
\* it.
C5_SecondStartIsNoOp ==
    [][(/\ response'.op = "start"
        /\ StatusOf = "running"
        /\ CurrentState.started_at # NONE) =>
          automation_state' = automation_state]_vars

\* C6: Stop issued while Running or Paused ends with status Idle and
\* current_task cleared, and the status is marked Idle only once the Action
\* Loop has ceased: after the Stop the loop is not able to dispatch an action.
C6_StopCeasesLoop ==
    [][(response'.op = "stop" /\ StatusOf \in {"running", "paused"}) =>
          /\ StatusOf' = "idle"
          /\ CurrentState'.current_task = NONE
          /\ loop_pc' # "ready"]_vars

\* C7: every lifecycle command adds one automation entry to the activity log
\* exactly when it changes the status, and none otherwise, so that the number
\* of automation log entries equals the number of transitions performed.
C7_OneLogPerTransition ==
    [][response'.op \in LifecycleOps =>
          AutomationLogCount' - AutomationLogCount =
              IF StatusOf' # StatusOf THEN 1 ELSE 0]_vars

\* C8: an action of a kind is recorded only while the count of that kind for
\* the current UTC day is below its daily limit: once the count reaches the
\* limit, every further action of that kind on that day is denied.
C8_DailyLimitsEnforced ==
    [][/\ Len(connections') > Len(connections) =>
              ConnectionsToday < EffectiveRateLimits.daily_connection_limit
       /\ Len(messages') > Len(messages) =>
              MessagesToday < EffectiveRateLimits.daily_message_limit]_vars

\* C10: every stored RateLimitConfig is well formed: both daily limits are
\* positive, 0 <= min_action_delay_ms <= max_action_delay_ms, and the business
\* hours are in 0..23 with start < end.
WellFormed(c) ==
    /\ c.daily_connection_limit > 0
    /\ c.daily_message_limit > 0
    /\ 0 <= c.min_action_delay_ms
    /\ c.min_action_delay_ms <= c.max_action_delay_ms
    /\ c.business_hours_start \in 0..23
    /\ c.business_hours_end \in 0..23
    /\ c.business_hours_start < c.business_hours_end

C10_RateLimitsWellFormed ==
    \A i \in 1..Len(rate_limits) : WellFormed(rate_limits[i])

\* C11: AutomationState is a singleton: under every interleaving of GetState,
\* Start, Stop, Pause and Resume requests the store never holds more than one
\* document with id "automation_state".
C11_StateSingleton == Len(automation_state) <= 1

\* C12: whenever the status is Running, credentials are configured: no
\* sequence of save-credentials, delete-credentials, Start, Stop, Pause and
\* Resume reaches status Running with an empty credentials collection.
C12_RunningHasCredentials ==
    StatusOf = "running" => credentials # <<>>

\* C13: a rate-limit update changes only the fields it supplies: every field
\* omitted from the request keeps its stored value (the default when no config
\* existed), the document holds the config fields and updated_at and nothing
\* else, and rate_limits holds at most one document after any series of reads
\* and updates.
C13_UpdateChangesOnlySupplied ==
    [][/\ Len(rate_limits') <= 1
       /\ response'.op = "update_rate_limits" =>
              /\ Len(rate_limits') = 1
              /\ DOMAIN rate_limits'[1] = RateLimitFields \cup {"updated_at"}
              /\ \A f \in RateLimitFields :
                     rate_limits'[1][f] =
                         IF response'.request[f] # NONE
                         THEN response'.request[f][1]
                         ELSE EffectiveRateLimits[f]]_vars

\* An update has just omitted daily_connection_limit and min_action_delay_ms,
\* which an earlier update had moved off their defaults, and supplied
\* daily_message_limit.
C13_Witness ==
    /\ response.op = "update_rate_limits"
    /\ response.request.daily_connection_limit = NONE
    /\ response.request.min_action_delay_ms = NONE
    /\ response.request.daily_message_limit = Some(1)
    /\ rate_limits # <<>>
    /\ rate_limits[1].daily_connection_limit = 1
    /\ rate_limits[1].min_action_delay_ms = 20000
    /\ rate_limits[1].daily_message_limit = 1

\* C14: updating a connection's status reports "Connection not found" if and
\* only if no connection has the given id: for every existing connection and
\* every status, the one it already has included, the update succeeds.
C14_NotFoundIffAbsent ==
    [][response'.op = "update_connection_status" =>
          (response'.result = "Connection not found"
              <=> Matching(response'.request.id) = {})]_vars

====
